---- MODULE Spec2Model ----
\* A model of the three scripts of the audio-files repository:
\*   list_audios.py                  (CloudinaryFileCounts, the Lister)
\*   audiodeletefiles.py             (DeleteLastFiveAudioFiles, Policy A)
\*   updatedcompareanddeletefile.py  (ProcessAudioFiles, Policy B)
\* A CSV file is modelled by what csv.reader returns for it: the sequence of
\* its rows, each row a sequence of strings.  The rows of the model have two
\* columns or a single one.  The remote store is the set of identifiers it
\* holds (deletion) and the sequence of resources it lists.  The deletion
\* call has the three outcomes the code tells apart: confirmed, answered
\* without confirmation, cloudinary.exceptions.Error.
EXTENDS Integers, Sequences, FiniteSets, TLC

VARIABLES
    fs,               \* the files on disk: name -> [exists, rows]
    fs0,              \* fs as it was when the current run started (history)
    remote,           \* identifiers the remote store holds
    pc,               \* position of the current run
    prev,             \* summary of the run before the current one (history)
    csv_filename,     \* the file name the user typed
    audio_details,    \* reader[1:]
    files_to_delete,
    remaining_files,
    idx,              \* 1-based position of the for loop
    requests,         \* identifiers passed to delete_resources, in call order
    log,              \* the kinds of messages logged by the current run
    now,              \* the clock read by datetime.now(), in days
    decided,          \* the clock value each processed row was compared with (history)
    store,            \* the resources the remote store lists, in listing order
    next_cursor,      \* the Lister's cursor; 0 stands for None
    calls,            \* the cursors passed to cloudinary.api.resources, in call order
    details           \* the Lister's audio_details (a list of dicts)

vars == <<fs, fs0, remote, pc, prev, csv_filename, audio_details,
          files_to_delete, remaining_files, idx, requests, log, now, decided,
          store, next_cursor, calls, details>>

reconcilerVars == <<csv_filename, audio_details, files_to_delete, remaining_files,
                    idx, requests>>
clockVars == <<now, decided>>
listerVars == <<store, next_cursor, calls, details>>

-----------------------------------------------------------------------------
\* Bounds of the model.

\* Largest number of data rows of an input file of Policy A.
MaxRows == 7
\* Largest number of single-column rows of an input file of Policy A.
MaxShort == 1
\* Largest number of data rows of an input file of Policy B.
MaxRowsB == 3
\* Largest number of days the clock advances during a run of Policy B.
MaxTicks == 1
\* Largest number of resources in the remote store the Lister lists.
MaxStore == 5
\* The page size of the model, for max_results=50.
PageSize == 2

-----------------------------------------------------------------------------
\* Program constants.

\* audio_details[-5:] and audio_details[:-5]
TAIL_COUNT == 5
\* timedelta(days=30)
MAX_AGE_DAYS == 30

AUDIO_DETAILS_FILENAME == "AudioFileDetails.csv"
new_csv_filename == "RemainingAudioFileDetails.csv"
FileNames == {AUDIO_DETAILS_FILENAME, new_csv_filename}

\* writer.writerow(["Filename", "Created At"])
Header == <<"Filename", "Created At">>

-----------------------------------------------------------------------------
\* Files.

Absent == [exists |-> FALSE, rows |-> <<>>]
File(rows) == [exists |-> TRUE, rows |-> rows]

Min(a, b) == IF a < b THEN a ELSE b
Max(a, b) == IF a > b THEN a ELSE b

\* Python's s[-n:] and s[:-n] for n > 0.
LastN(s, n) == SubSeq(s, Max(1, Len(s) - n + 1), Len(s))
\* A variant: s[:n], the first n instead of all but the last n.
AllButLastN_FirstN(s, n) == SubSeq(s, 1, Min(n, Len(s)))
\* A variant: s[:len(s) - n], whose negative bound counts from the end.
AllButLastN_LenMinusN(s, n) ==
    IF Len(s) - n >= 0 THEN SubSeq(s, 1, Len(s) - n)
    ELSE SubSeq(s, 1, Max(0, Len(s) + (Len(s) - n)))
AllButLastN(s, n) == SubSeq(s, 1, Max(0, Len(s) - n))

\* The rows save_remaining_details_to_csv has written when it returns: the
\* header, then [detail[0], detail[1]] for each detail up to the first one
\* that has no detail[1] (the IndexError ends the writing; the file was
\* opened with mode "w", so what was there before is gone).
FirstShort(rows) ==
    IF \E k \in 1..Len(rows) : Len(rows[k]) < 2
    THEN CHOOSE k \in 1..Len(rows) :
            /\ Len(rows[k]) < 2
            /\ \A j \in 1..(k - 1) : Len(rows[j]) >= 2
    ELSE Len(rows) + 1
WrittenRows(rows) ==
    <<Header>> \o [k \in 1..(FirstShort(rows) - 1) |-> <<rows[k][1], rows[k][2]>>]
SaveSucceeds(rows) == FirstShort(rows) > Len(rows)

-----------------------------------------------------------------------------
\* Policy A: DeleteLastFiveAudioFiles.

\* The identifiers of the rows of an input file, by position.
Names == <<"a", "b", "c", "d", "e", "f", "g", "h", "i">>
StaleName == "z"
AllIds == {Names[k] : k \in 1..Len(Names)} \cup {StaleName}
CreatedAt == "2024-11-14 18:06:00"

\* The data rows of an input file of n rows: row k is well-formed unless k is
\* in short, and then it has a single column.
InputRows(n, short) ==
    [k \in 1..n |-> IF k \in short THEN <<Names[k]>> ELSE <<Names[k], CreatedAt>>]
InputFilesA ==
    {Absent} \cup UNION {{File(<<Header>> \o InputRows(n, short)) :
                               short \in {S \in SUBSET (1..n) : Cardinality(S) <= MaxShort}} :
                            n \in 0..MaxRows}
\* What RemainingAudioFileDetails.csv holds before the first run.
StaleFiles == {Absent, File(<<Header, <<StaleName, CreatedAt>>>>)}

NoRun == [status |-> "none", rows |-> 0, csv |-> ""]

InitA ==
    /\ fs \in {[f \in FileNames |-> IF f = AUDIO_DETAILS_FILENAME THEN i ELSE o] :
                 i \in InputFilesA, o \in StaleFiles}
    /\ fs0 = fs
    /\ remote = AllIds
    /\ pc = "Idle"
    /\ prev = NoRun
    /\ csv_filename = ""
    /\ audio_details = <<>>
    /\ files_to_delete = <<>>
    /\ remaining_files = <<>>
    /\ idx = 1
    /\ requests = <<>>
    /\ log = {}
    /\ now = 0
    /\ decided = <<>>
    /\ store = <<>>
    /\ next_cursor = 0
    /\ calls = <<>>
    /\ details = <<>>

Ended == {"Rejected", "Persisted", "SaveFailed", "Aborted", "Terminated"}

\* The summary of the run that is ending, kept for the next one.
Summary == IF pc = "Idle" THEN NoRun
           ELSE [status |-> pc, rows |-> Len(audio_details), csv |-> csv_filename]

\* remaining_files = audio_details[:-5]
RemainingOf_FirstFive(rows) == AllButLastN_FirstN(rows, TAIL_COUNT)
RemainingOf_LenMinusFive(rows) == AllButLastN_LenMinusN(rows, TAIL_COUNT)
RemainingOf(rows) == AllButLastN(rows, TAIL_COUNT)

\* delete_audio_files up to the for loop: the existence check, the read and
\* the partition.  A run starts a new process: nothing of the previous run
\* is left but the files and the remote store.  The model follows two runs
\* in a row: the second starts where the first ended.
A_Load ==
    /\ pc \in {"Idle"} \cup Ended
    /\ prev = NoRun
    /\ prev' = Summary
    /\ fs0' = fs
    /\ idx' = 1
    /\ requests' = <<>>
    /\ \E f \in FileNames :
        /\ csv_filename' = f
        /\ IF ~fs[f].exists
           THEN /\ log' = {"error: does not exist"}
                /\ pc' = "Rejected"
                /\ audio_details' = <<>>
                /\ files_to_delete' = <<>>
                /\ remaining_files' = <<>>
           ELSE IF Len(fs[f].rows) <= 1
           THEN /\ log' = {"error: not enough data"}
                /\ pc' = "Rejected"
                /\ audio_details' = <<>>
                /\ files_to_delete' = <<>>
                /\ remaining_files' = <<>>
           ELSE /\ audio_details' = Tail(fs[f].rows)
                /\ log' = IF Len(audio_details') < TAIL_COUNT
                          THEN {"warning: fewer than 5"} ELSE {}
                /\ files_to_delete' = LastN(audio_details', TAIL_COUNT)
                /\ remaining_files' = RemainingOf(audio_details')
                /\ pc' = "Deleting"
    /\ UNCHANGED <<fs, remote, clockVars, listerVars>>

\* What cloudinary.api.delete_resources([filename]) can do: confirm the
\* deletion (only of a resource the store holds), answer without confirming
\* it, or raise cloudinary.exceptions.Error.
DeleteOutcomes(filename) ==
    (IF filename \in remote THEN {"deleted"} ELSE {}) \cup {"not deleted", "error"}

\* A variant: the record is rewritten inside the loop.
A_DeleteStep_SaveInLoop ==
    /\ pc = "Deleting"
    /\ idx <= Len(files_to_delete)
    /\ LET filename == files_to_delete[idx][1] IN
        /\ requests' = Append(requests, filename)
        /\ \E outcome \in DeleteOutcomes(filename) :
            /\ remote' = IF outcome = "deleted" THEN remote \ {filename} ELSE remote
            /\ log' = log \cup {CASE outcome = "deleted" -> "info: deleted"
                                  [] outcome = "not deleted" -> "warning: failed to delete"
                                  [] outcome = "error" -> "error: deleting"}
    /\ idx' = idx + 1
    /\ fs' = [fs EXCEPT ![new_csv_filename] = File(WrittenRows(remaining_files))]
    /\ UNCHANGED <<fs0, pc, prev, csv_filename, audio_details,
                   files_to_delete, remaining_files, clockVars, listerVars>>

\* A variant: the try is around the loop, so an error ends it.
A_DeleteStep_AbortOnError ==
    /\ pc = "Deleting"
    /\ idx <= Len(files_to_delete)
    /\ LET filename == files_to_delete[idx][1] IN
        /\ requests' = Append(requests, filename)
        /\ \E outcome \in DeleteOutcomes(filename) :
            /\ remote' = IF outcome = "deleted" THEN remote \ {filename} ELSE remote
            /\ log' = log \cup {CASE outcome = "deleted" -> "info: deleted"
                                  [] outcome = "not deleted" -> "warning: failed to delete"
                                  [] outcome = "error" -> "error: deleting"}
            /\ pc' = IF outcome = "error" THEN "Aborted" ELSE pc
    /\ idx' = idx + 1
    /\ UNCHANGED <<fs, fs0, prev, csv_filename, audio_details,
                   files_to_delete, remaining_files, clockVars, listerVars>>

\* One iteration of the for loop over files_to_delete.
A_DeleteStep ==
    /\ pc = "Deleting"
    /\ idx <= Len(files_to_delete)
    /\ LET filename == files_to_delete[idx][1] IN
        /\ requests' = Append(requests, filename)
        /\ \E outcome \in DeleteOutcomes(filename) :
            /\ remote' = IF outcome = "deleted" THEN remote \ {filename} ELSE remote
            /\ log' = log \cup {CASE outcome = "deleted" -> "info: deleted"
                                  [] outcome = "not deleted" -> "warning: failed to delete"
                                  [] outcome = "error" -> "error: deleting"}
    /\ idx' = idx + 1
    /\ UNCHANGED <<fs, fs0, pc, prev, csv_filename, audio_details,
                   files_to_delete, remaining_files, clockVars, listerVars>>

\* A variant: the rows whose deletion was not confirmed stay in the record.
A_Save_KeepUndeleted ==
    /\ pc = "Deleting"
    /\ idx > Len(files_to_delete)
    /\ fs' = [fs EXCEPT ![new_csv_filename] = File(WrittenRows(remaining_files \o
                 SelectSeq(files_to_delete, LAMBDA d : d[1] \in remote)))]
    /\ IF SaveSucceeds(remaining_files)
       THEN /\ pc' = "Persisted"
            /\ log' = log \cup {"info: saved"}
       ELSE /\ pc' = "SaveFailed"
            /\ log' = log \cup {"error: writing"}
    /\ UNCHANGED <<fs0, remote, prev, reconcilerVars, clockVars, listerVars>>
\* After the loop: self.save_remaining_details_to_csv(remaining_files).
A_Save ==
    /\ pc = "Deleting"
    /\ idx > Len(files_to_delete)
    /\ fs' = [fs EXCEPT ![new_csv_filename] = File(WrittenRows(remaining_files))]
    /\ IF SaveSucceeds(remaining_files)
       THEN /\ pc' = "Persisted"
            /\ log' = log \cup {"info: saved"}
       ELSE /\ pc' = "SaveFailed"
            /\ log' = log \cup {"error: writing"}
    /\ UNCHANGED <<fs0, remote, prev, reconcilerVars, clockVars, listerVars>>

\* The process is ended from outside while it waits for the remote store
\* (KeyboardInterrupt is no Exception: the except clauses let it through).
A_Terminate ==
    /\ pc = "Deleting"
    /\ idx <= Len(files_to_delete)
    /\ pc' = "Terminated"
    /\ UNCHANGED <<fs, fs0, remote, prev, reconcilerVars, log, clockVars, listerVars>>

NextA == A_Load \/ A_DeleteStep \/ A_Save \/ A_Terminate

SpecA == InitA /\ [][NextA]_vars

-----------------------------------------------------------------------------
\* Policy B: ProcessAudioFiles.

BACKGROUND_MUSIC_URLS ==
    ("none" :> "") @@
    ("default" :> "https://res.cloudinary.com/dsw0dw6j6/video/upload/v1731607560/tiktok_audio/default.mp3") @@
    ("hard-as" :> "https://res.cloudinary.com/dsw0dw6j6/video/upload/v1731607548/tiktok_audio/hard-as.mp3") @@
    ("wonders" :> "https://res.cloudinary.com/dsw0dw6j6/video/upload/v1731607550/tiktok_audio/wonders.mp3") @@
    ("hot-pepper" :> "https://res.cloudinary.com/dsw0dw6j6/video/upload/v1731607551/tiktok_audio/hot-pepper.mp3") @@
    ("transition" :> "https://res.cloudinary.com/dsw0dw6j6/video/upload/v1731607553/tiktok_audio/transition.mp3") @@
    ("daylight" :> "https://res.cloudinary.com/dsw0dw6j6/video/upload/v1731607556/tiktok_audio/daylight.mp3") @@
    ("cinematic-epic" :> "https://res.cloudinary.com/dsw0dw6j6/video/upload/v1731607558/tiktok_audio/cinematic-epic.mp3") @@
    ("lovely" :> "https://res.cloudinary.com/dsw0dw6j6/video/upload/v1731607562/tiktok_audio/lovely.mp3") @@
    ("emotional-chill" :> "https://res.cloudinary.com/dsw0dw6j6/video/upload/v1731607564/tiktok_audio/emotional-chill.mp3") @@
    ("epic-cinematic" :> "https://res.cloudinary.com/dsw0dw6j6/video/upload/v1731607567/tiktok_audio/epic-cinematic.wav") @@
    ("aura-fast" :> "https://res.cloudinary.com/dsw0dw6j6/video/upload/v1731607569/tiktok_audio/aura-fast.mp3") @@
    ("summit" :> "https://res.cloudinary.com/dsw0dw6j6/video/upload/v1731607571/tiktok_audio/summit.mp3")

\* BACKGROUND_MUSIC_URLS.values()
Values(d) == {d[k] : k \in DOMAIN d}

\* datetime.strptime(s, "%Y-%m-%d %H:%M:%S") for the strings of the model, as
\* a number of days (the day of the year 2024, counted from 1 January = 1);
\* any other string raises ValueError.
DayOf ==
    ("2024-10-16 00:00:00" :> 290) @@
    ("2024-11-15 00:00:00" :> 320) @@
    ("2024-12-05 00:00:00" :> 340) @@
    ("2024-12-15 00:00:00" :> 350)
Parses(s) == s \in DOMAIN DayOf
strptime(s) == DayOf[s]

\* The clock when a run of Policy B starts.
StartOfRun == "2024-12-15 00:00:00"
\* Created 60, 30 and 10 days before the start of the run.
SixtyDaysOld == "2024-10-16 00:00:00"
ThirtyDaysOld == "2024-11-15 00:00:00"
TenDaysOld == "2024-12-05 00:00:00"
\* What the remote store reports as created_at, and the Lister writes.
IsoCreatedAt == "2024-11-14T18:06:00Z"

\* The identifiers of the rows of an input file of Policy B: the public id of
\* a background track, the URL of the same track (a value of the allowlist)
\* and the empty string (the value of "none").
PublicId == "tiktok_audio/default"
IdsB == {PublicId, BACKGROUND_MUSIC_URLS["default"], BACKGROUND_MUSIC_URLS["none"]}
RowsB ==
    {<<id, ts>> : id \in IdsB, ts \in {SixtyDaysOld, ThirtyDaysOld, TenDaysOld, IsoCreatedAt}}
        \cup {<<PublicId>>}
RECURSIVE SeqsUpTo(_, _)
SeqsUpTo(S, n) ==
    IF n = 0 THEN {<<>>}
    ELSE LET shorter == SeqsUpTo(S, n - 1) IN
         shorter \cup {Append(q, x) : q \in {r \in shorter : Len(r) = n - 1}, x \in S}
InputFilesB == {Absent} \cup {File(<<Header>> \o r) : r \in SeqsUpTo(RowsB, MaxRowsB)}

InitB ==
    /\ fs \in {[f \in FileNames |-> IF f = AUDIO_DETAILS_FILENAME THEN i ELSE o] :
                 i \in InputFilesB, o \in StaleFiles}
    /\ fs0 = fs
    /\ remote = IdsB \cup {StaleName}
    /\ pc = "Idle"
    /\ prev = NoRun
    /\ csv_filename = ""
    /\ audio_details = <<>>
    /\ files_to_delete = <<>>
    /\ remaining_files = <<>>
    /\ idx = 1
    /\ requests = <<>>
    /\ log = {}
    /\ now = strptime(StartOfRun)
    /\ decided = <<>>
    /\ store = <<>>
    /\ next_cursor = 0
    /\ calls = <<>>
    /\ details = <<>>

\* process_audio_files up to the for loop: the existence check and the read.
B_Load ==
    /\ pc = "Idle"
    /\ fs0' = fs
    /\ idx' = 1
    /\ files_to_delete' = <<>>
    /\ remaining_files' = <<>>
    /\ \E f \in FileNames :
        /\ csv_filename' = f
        /\ IF ~fs[f].exists
           THEN /\ log' = {"error: does not exist"}
                /\ pc' = "Rejected"
                /\ audio_details' = <<>>
           ELSE IF Len(fs[f].rows) <= 1
           THEN /\ log' = {"error: not enough data"}
                /\ pc' = "Rejected"
                /\ audio_details' = <<>>
           ELSE /\ audio_details' = Tail(fs[f].rows)
                /\ log' = {}
                /\ pc' = "Processing"
    /\ UNCHANGED <<fs, remote, prev, requests, clockVars, listerVars>>

\* created_at < datetime.now() - timedelta(days=30)
OlderThanMaxAge_Inclusive(created_at, t) == created_at <= t - MAX_AGE_DAYS
OlderThanMaxAge(created_at, t) == created_at < t - MAX_AGE_DAYS

\* filename in BACKGROUND_MUSIC_URLS.values()
InBackgroundMusic(filename) == filename \in Values(BACKGROUND_MUSIC_URLS)

\* A variant: the age is checked before the background music list.
B_ProcessRow_AgeFirst ==
    /\ pc = "Processing"
    /\ idx <= Len(audio_details)
    /\ LET file_detail == audio_details[idx] IN
        IF Len(file_detail) < 2 \/ ~Parses(file_detail[2])
        THEN /\ pc' = "Aborted"
             /\ log' = log \cup {"error: unexpected"}
             /\ UNCHANGED <<files_to_delete, remaining_files, idx, decided>>
        ELSE LET filename == file_detail[1]
                 created_at == strptime(file_detail[2])
             IN  /\ decided' = Append(decided, now)
                 /\ idx' = idx + 1
                 /\ pc' = pc
                 /\ IF OlderThanMaxAge(created_at, now)
                    THEN /\ log' = log \cup {"info: would be deleted"}
                         /\ files_to_delete' = Append(files_to_delete, filename)
                         /\ remaining_files' = remaining_files
                    ELSE /\ log' = log
                         /\ remaining_files' =
                               Append(remaining_files, <<filename, file_detail[2]>>)
                         /\ files_to_delete' = files_to_delete
    /\ UNCHANGED <<fs, fs0, remote, prev, csv_filename, audio_details, requests,
                   now, listerVars>>
\* A variant: the placeholder is replaced by the call Policy A makes.
B_ProcessRow_Deleting ==
    /\ pc = "Processing"
    /\ idx <= Len(audio_details)
    /\ LET file_detail == audio_details[idx] IN
        IF Len(file_detail) < 2 \/ ~Parses(file_detail[2])
        THEN /\ pc' = "Aborted"
             /\ log' = log \cup {"error: unexpected"}
             /\ UNCHANGED <<files_to_delete, remaining_files, idx, decided,
                            requests, remote>>
        ELSE LET filename == file_detail[1]
                 created_at == strptime(file_detail[2])
             IN  /\ decided' = Append(decided, now)
                 /\ idx' = idx + 1
                 /\ pc' = pc
                 /\ IF InBackgroundMusic(filename)
                    THEN /\ log' = log \cup {"info: skipping"}
                         /\ remaining_files' =
                               Append(remaining_files, <<filename, file_detail[2]>>)
                         /\ UNCHANGED <<files_to_delete, requests, remote>>
                    ELSE IF OlderThanMaxAge(created_at, now)
                    THEN /\ log' = log \cup {"info: would be deleted"}
                         /\ files_to_delete' = Append(files_to_delete, filename)
                         /\ requests' = Append(requests, filename)
                         /\ remote' = remote \ {filename}
                         /\ remaining_files' = remaining_files
                    ELSE /\ log' = log
                         /\ remaining_files' =
                               Append(remaining_files, <<filename, file_detail[2]>>)
                         /\ UNCHANGED <<files_to_delete, requests, remote>>
    /\ UNCHANGED <<fs, fs0, prev, csv_filename, audio_details, now, listerVars>>
\* One iteration of the for loop over audio_details.  file_detail[1] of a
\* single-column row raises IndexError and strptime of a string in another
\* format raises ValueError: both leave the try block for the outer except,
\* which logs and returns.
B_ProcessRow ==
    /\ pc = "Processing"
    /\ idx <= Len(audio_details)
    /\ LET file_detail == audio_details[idx] IN
        IF Len(file_detail) < 2 \/ ~Parses(file_detail[2])
        THEN /\ pc' = "Aborted"
             /\ log' = log \cup {"error: unexpected"}
             /\ UNCHANGED <<files_to_delete, remaining_files, idx, decided>>
        ELSE LET filename == file_detail[1]
                 created_at == strptime(file_detail[2])
             IN  /\ decided' = Append(decided, now)
                 /\ idx' = idx + 1
                 /\ pc' = pc
                 /\ IF InBackgroundMusic(filename)
                    THEN /\ log' = log \cup {"info: skipping"}
                         /\ remaining_files' =
                               Append(remaining_files, <<filename, file_detail[2]>>)
                         /\ files_to_delete' = files_to_delete
                    ELSE IF OlderThanMaxAge(created_at, now)
                    THEN /\ log' = log \cup {"info: would be deleted"}
                         /\ files_to_delete' = Append(files_to_delete, filename)
                         /\ remaining_files' = remaining_files
                    ELSE /\ log' = log
                         /\ remaining_files' =
                               Append(remaining_files, <<filename, file_detail[2]>>)
                         /\ files_to_delete' = files_to_delete
    /\ UNCHANGED <<fs, fs0, remote, prev, csv_filename, audio_details, requests,
                   now, listerVars>>

\* After the loop: the report of files_to_delete (log lines only), then
\* self.save_remaining_details_to_csv(remaining_files).
B_Save ==
    /\ pc = "Processing"
    /\ idx > Len(audio_details)
    /\ fs' = [fs EXCEPT ![new_csv_filename] = File(WrittenRows(remaining_files))]
    /\ pc' = IF SaveSucceeds(remaining_files) THEN "Persisted" ELSE "SaveFailed"
    /\ log' = log \cup {IF files_to_delete # <<>> THEN "info: would be deleted:"
                                                ELSE "info: none eligible"}
                  \cup {IF SaveSucceeds(remaining_files) THEN "info: saved"
                                                         ELSE "error: writing"}
    /\ UNCHANGED <<fs0, remote, prev, reconcilerVars, clockVars, listerVars>>

\* Time passes between two readings of datetime.now().
B_Tick ==
    /\ pc = "Processing"
    /\ now < strptime(StartOfRun) + MaxTicks
    /\ now' = now + 1
    /\ UNCHANGED <<fs, fs0, remote, pc, prev, reconcilerVars, log, decided, listerVars>>

NextB == B_Load \/ B_ProcessRow \/ B_Save \/ B_Tick

SpecB == InitB /\ [][NextB]_vars

-----------------------------------------------------------------------------
\* The Lister: CloudinaryFileCounts.

\* Resource k of the remote store, as cloudinary.api.resources returns it: a
\* dict with both keys, or with one of them missing.
Resource(k, kind) ==
    CASE kind = "both" -> ("public_id" :> Names[k]) @@ ("created_at" :> IsoCreatedAt)
      [] kind = "no created_at" -> ("public_id" :> Names[k])
      [] kind = "no public_id" -> ("created_at" :> IsoCreatedAt)
Stores(n) == {[k \in 1..n |-> Resource(k, kinds[k])] :
                 kinds \in [1..n -> {"both", "no created_at", "no public_id"}]}

\* dict.get(key, default)
Get(d, key, default) == IF key \in DOMAIN d THEN d[key] ELSE default

\* The remote store's answer to resources(max_results=PageSize,
\* next_cursor=cursor): the page the cursor names (None, here 0, names the
\* first), with a next_cursor when resources follow it.  A cursor is the
\* number of the page it names.
PageOf(cursor) == IF cursor = 0 THEN 1 ELSE cursor
Page(p) == SubSeq(store, (p - 1) * PageSize + 1, Min(p * PageSize, Len(store)))
Response(cursor) ==
    LET p == PageOf(cursor) IN
    IF p * PageSize < Len(store)
    THEN ("resources" :> Page(p)) @@ ("next_cursor" :> p + 1)
    ELSE ("resources" :> Page(p))

\* audio_details.append({"filename": ..., "created_at": ...}) for each resource
DetailsOf(resources) ==
    [k \in 1..Len(resources) |->
        [filename |-> Get(resources[k], "public_id", "Unknown"),
         created_at |-> Get(resources[k], "created_at", "Unknown")]]

InitL ==
    /\ store \in UNION {Stores(n) : n \in 0..MaxStore}
    /\ fs \in {[f \in FileNames |-> IF f = AUDIO_DETAILS_FILENAME THEN o ELSE Absent] :
                 o \in StaleFiles}
    /\ fs0 = fs
    /\ remote = {}
    /\ pc = "Listing"
    /\ prev = NoRun
    /\ csv_filename = ""
    /\ audio_details = <<>>
    /\ files_to_delete = <<>>
    /\ remaining_files = <<>>
    /\ idx = 1
    /\ requests = <<>>
    /\ log = {}
    /\ now = 0
    /\ decided = <<>>
    /\ next_cursor = 0
    /\ calls = <<>>
    /\ details = <<>>

\* A variant: what was fetched is dropped when a call raises.
L_Fetch_DropOnError ==
    /\ pc = "Listing"
    /\ calls' = Append(calls, next_cursor)
    /\ \/ /\ log' = log \cup {"error: fetching"}
          /\ pc' = "Fetched"
          /\ details' = <<>>
          /\ UNCHANGED next_cursor
       \/ /\ log' = log \cup {"warning: no valid response"}
          /\ pc' = "Fetched"
          /\ UNCHANGED <<details, next_cursor>>
       \/ LET response == Response(next_cursor) IN
          /\ details' = details \o DetailsOf(response["resources"])
          /\ next_cursor' = Get(response, "next_cursor", 0)
          /\ pc' = IF next_cursor' = 0 THEN "Fetched" ELSE "Listing"
          /\ UNCHANGED log
    /\ UNCHANGED <<fs, fs0, remote, prev, reconcilerVars, clockVars, store>>
\* One iteration of the while loop of get_audio_files_details: the call, and
\* then either an exception (every except clause logs and falls through to
\* the return), an answer that is empty or has no 'resources' (a warning and
\* break), or a page, whose resources are appended and whose next_cursor
\* decides whether the loop goes on.
L_Fetch ==
    /\ pc = "Listing"
    /\ calls' = Append(calls, next_cursor)
    /\ \/ /\ log' = log \cup {"error: fetching"}
          /\ pc' = "Fetched"
          /\ UNCHANGED <<details, next_cursor>>
       \/ /\ log' = log \cup {"warning: no valid response"}
          /\ pc' = "Fetched"
          /\ UNCHANGED <<details, next_cursor>>
       \/ LET response == Response(next_cursor) IN
          /\ details' = details \o DetailsOf(response["resources"])
          /\ next_cursor' = Get(response, "next_cursor", 0)
          /\ pc' = IF next_cursor' = 0 THEN "Fetched" ELSE "Listing"
          /\ UNCHANGED log
    /\ UNCHANGED <<fs, fs0, remote, prev, reconcilerVars, clockVars, store>>

\* process_audio_details after the fetch: save_details_to_csv.
L_Save ==
    /\ pc = "Fetched"
    /\ fs' = [fs EXCEPT ![AUDIO_DETAILS_FILENAME] =
                File(<<Header>> \o [k \in 1..Len(details) |->
                                       <<details[k].filename, details[k].created_at>>])]
    /\ pc' = "Persisted"
    /\ log' = log \cup {"info: saved"}
    /\ UNCHANGED <<fs0, remote, prev, reconcilerVars, clockVars, listerVars>>

NextL == L_Fetch \/ L_Save

SpecL == InitL /\ [][NextL]_vars

-----------------------------------------------------------------------------
\* Properties of Policy A.

InRun == pc \in {"Deleting", "Terminated", "Persisted", "SaveFailed", "Aborted"}
\* The data rows of the file the run read.
InputRecordSet == Tail(fs0[csv_filename].rows)
HasShortRow(rows) == \E k \in 1..Len(rows) : Len(rows[k]) < 2
Ids(rows) == {rows[k][1] : k \in 1..Len(rows)}

\* C1: Policy A partitions the data rows of the input record: ToDelete is the
\* last min(5, len) rows in their order, ToKeep the rows before them in their
\* order, ToKeep ++ ToDelete is the input; below 5 rows ToDelete is all of
\* them and ToKeep is empty.
C1_TailPartition ==
    InRun =>
        /\ audio_details = InputRecordSet
        /\ Len(files_to_delete) = Min(TAIL_COUNT, Len(audio_details))
        /\ \A k \in 1..Len(files_to_delete) :
              files_to_delete[k] =
                  audio_details[Len(audio_details) - Len(files_to_delete) + k]
        /\ \A k \in 1..Len(remaining_files) : remaining_files[k] = audio_details[k]
        /\ remaining_files \o files_to_delete = audio_details
        /\ Len(audio_details) < TAIL_COUNT =>
              /\ files_to_delete = audio_details
              /\ remaining_files = <<>>

\* Scenario: 7 rows a..g, c..g selected, a and b kept.
C1_Witness ==
    /\ pc = "Persisted"
    /\ Len(audio_details) = 7
    /\ Ids(remaining_files) = {"a", "b"}
    /\ Ids(files_to_delete) = {"c", "d", "e", "f", "g"}

\* C4 (as stated, for Policy A): a run over an input with a single-column row
\* aborts and leaves RemainingAudioFileDetails.csv as it was before the run.
C4_MalformedRowAbortsA ==
    (pc \in Ended /\ pc # "Terminated" /\ HasShortRow(audio_details)) =>
        /\ pc = "Aborted"
        /\ fs[new_csv_filename] = fs0[new_csv_filename]

\* C5 (as stated): a run on fewer than 5 records, the empty RecordSet
\* included, leaves an empty output record, and a run on the empty RecordSet
\* logs no error.
C5_FewerThanFiveEmptiesOutput ==
    (/\ pc \in Ended
     /\ pc # "Terminated"
     /\ fs0[csv_filename].exists
     /\ Len(fs0[csv_filename].rows) >= 1
     /\ Len(InputRecordSet) < TAIL_COUNT) =>
        /\ fs[new_csv_filename] = File(<<Header>>)
        /\ \A m \in log : m \notin {"error: not enough data", "error: does not exist"}

\* C5 (amended): a completed run on 1 to 4 records leaves the output record
\* with the header only; a run on a record with the header only (such as the
\* one the first run left) selects nothing, issues no delete request, raises
\* nothing, logs "not enough data" as an error and writes no file, so the
\* output record of the first run is still empty after the second.
C5_OneToFourThenEmpty ==
    /\ (/\ pc \in Ended
        /\ pc # "Terminated"
        /\ fs0[csv_filename].exists
        /\ Len(fs0[csv_filename].rows) >= 2
        /\ Len(InputRecordSet) < TAIL_COUNT) =>
            /\ pc = "Persisted"
            /\ fs[new_csv_filename] = File(<<Header>>)
    /\ (/\ pc \in Ended
        /\ fs0[csv_filename] = File(<<Header>>)) =>
            /\ pc = "Rejected"
            /\ files_to_delete = <<>>
            /\ requests = <<>>
            /\ log = {"error: not enough data"}
            /\ fs = fs0

\* The second run, on the record the first run emptied.
C5_Witness ==
    /\ prev.status = "Persisted"
    /\ prev.rows \in 1..(TAIL_COUNT - 1)
    /\ csv_filename = new_csv_filename
    /\ pc = "Rejected"
    /\ fs[new_csv_filename] = File(<<Header>>)

\* C6: while some identifier of ToDelete has not been attempted, the run
\* terminated mid-deletion included, the files are as they were before the run.
C6_NoRewriteBeforeDeletePassEnds ==
    (pc \in {"Deleting", "Terminated"} /\ idx <= Len(files_to_delete)) => fs = fs0

\* A run ended after some deletions, with an output record from before.
C6_Witness ==
    /\ pc = "Terminated"
    /\ idx > 2
    /\ idx <= Len(files_to_delete)
    /\ remote # AllIds
    /\ fs0[new_csv_filename].exists
    /\ fs[new_csv_filename] = fs0[new_csv_filename]

C8_RecordReflectsSelection ==
    pc = "Persisted" =>
        /\ fs[new_csv_filename] = File(<<Header>> \o remaining_files)
        /\ remaining_files =
              SubSeq(InputRecordSet, 1,
                     Len(InputRecordSet) - Min(TAIL_COUNT, Len(InputRecordSet)))
        /\ Ids(Tail(fs[new_csv_filename].rows)) \cap Ids(files_to_delete) = {}

\* An identifier whose deletion was not confirmed is still in the remote
\* store and no longer in the record.
C8_Witness ==
    /\ pc = "Persisted"
    /\ remaining_files # <<>>
    /\ \E id \in Ids(files_to_delete) :
          /\ id \in remote
          /\ id \notin Ids(Tail(fs[new_csv_filename].rows))
    /\ \E id \in Ids(files_to_delete) : id \notin remote

-----------------------------------------------------------------------------
\* Properties of Policy B.

Allowlisted(row) == row[1] \in Values(BACKGROUND_MUSIC_URLS)
WellFormedRow(row) == Len(row) = 2 /\ Parses(row[2])
WellFormed(rows) == \A k \in 1..Len(rows) : WellFormedRow(rows[k])
\* The rows the loop has been through.
Processed == SubSeq(audio_details, 1, idx - 1)
InRunB == pc \in {"Processing", "Persisted", "SaveFailed", "Aborted"}

\* C2: a record whose identifier is a value of the allowlist (the empty
\* string included) is never put in ToDelete; whatever its age it is put in
\* ToKeep when the loop comes to it, and it is in the output record the run
\* writes.
C2_AllowlistedKept ==
    InRunB =>
        /\ \A k \in 1..Len(files_to_delete) :
              files_to_delete[k] \notin Values(BACKGROUND_MUSIC_URLS)
        /\ SelectSeq(remaining_files, Allowlisted) = SelectSeq(Processed, Allowlisted)
        /\ pc = "Persisted" =>
              SelectSeq(Tail(fs[new_csv_filename].rows), Allowlisted)
                  = SelectSeq(audio_details, Allowlisted)

\* Kept at 60 days: a row with the URL of a track and a row with the empty
\* identifier, beside a row that is deleted.
C2_Witness ==
    /\ pc = "Persisted"
    /\ files_to_delete # <<>>
    /\ \E j, k \in 2..Len(fs[new_csv_filename].rows) :
          /\ fs[new_csv_filename].rows[j] = <<BACKGROUND_MUSIC_URLS["default"], SixtyDaysOld>>
          /\ fs[new_csv_filename].rows[k] = <<"", SixtyDaysOld>>

\* Row k of audio_details is to be deleted: its identifier is not allowlisted
\* and it was created more than 30 days before the clock value it was
\* compared with.
ToBeDeleted(k) ==
    /\ ~Allowlisted(audio_details[k])
    /\ decided[k] - strptime(audio_details[k][2]) > MAX_AGE_DAYS
RECURSIVE KeepOf(_)
KeepOf(n) ==
    IF n = 0 THEN <<>>
    ELSE IF ToBeDeleted(n) THEN KeepOf(n - 1)
    ELSE Append(KeepOf(n - 1), audio_details[n])
RECURSIVE DeleteOf(_)
DeleteOf(n) ==
    IF n = 0 THEN <<>>
    ELSE IF ToBeDeleted(n) THEN Append(DeleteOf(n - 1), audio_details[n][1])
    ELSE DeleteOf(n - 1)

\* C3: on an input of well-formed rows, a record is in ToDelete if and only
\* if it is not allowlisted and now - created_at > 30 days, every other
\* record is in ToKeep, and the output record is ToKeep in input order.
C3_DeleteIffOldAndNotAllowlisted ==
    (InRunB /\ WellFormed(audio_details)) =>
        /\ pc \in {"Processing", "Persisted"}
        /\ Len(decided) = idx - 1
        /\ files_to_delete = DeleteOf(idx - 1)
        /\ remaining_files = KeepOf(idx - 1)
        /\ pc = "Persisted" =>
              /\ idx - 1 = Len(audio_details)
              /\ fs[new_csv_filename] = File(<<Header>> \o KeepOf(Len(audio_details)))

\* Scenario: an allowlisted record of 60 days is kept, another record of 60
\* days is deleted, a record of exactly 30 days is kept.
C3_Witness ==
    /\ pc = "Persisted"
    /\ audio_details = << <<BACKGROUND_MUSIC_URLS["default"], SixtyDaysOld>>,
                          <<PublicId, SixtyDaysOld>>,
                          <<PublicId, ThirtyDaysOld>> >>
    /\ files_to_delete = <<PublicId>>
    /\ Tail(fs[new_csv_filename].rows) =
          << <<BACKGROUND_MUSIC_URLS["default"], SixtyDaysOld>>,
             <<PublicId, ThirtyDaysOld>> >>

\* C4 (for Policy B): a run over an input with a single-column row aborts and
\* leaves RemainingAudioFileDetails.csv as it was before the run.
C4_MalformedRowAbortsB ==
    (pc \in Ended /\ HasShortRow(audio_details)) =>
        /\ pc = "Aborted"
        /\ fs = fs0

-----------------------------------------------------------------------------
\* Properties of the Lister.

\* A call raised, or its answer was not valid.
ListingFailed == \E m \in log : m \in {"error: fetching", "warning: no valid response"}
\* The number of pages fetched.
PagesFetched == IF ListingFailed THEN Len(calls) - 1 ELSE Len(calls)
\* The row the Lister writes for a resource.
RowOf(r) == <<Get(r, "public_id", "Unknown"), Get(r, "created_at", "Unknown")>>
\* The items of the first n pages, in listing order.
ItemsOfPages(n) ==
    [k \in 1..Min(n * PageSize, Len(store)) |-> RowOf(store[k])]
DetailRows == [k \in 1..Len(details) |-> <<details[k].filename, details[k].created_at>>]

\* C10: the Lister asks for the pages one after the other, the first with no
\* cursor and each next one with the cursor the page before it gave, until a
\* page gives none; what it persists is the items of the pages fetched, in
\* order: all of them when no call failed, and those of the pages before the
\* failure when one did, the run going on to the save.
C10_ListerPersistsPagesFetched ==
    /\ pc \in {"Listing", "Fetched", "Persisted"}
    /\ \A k \in 1..Len(calls) : calls[k] = IF k = 1 THEN 0 ELSE k
    /\ DetailRows = ItemsOfPages(PagesFetched)
    /\ (pc = "Listing" /\ calls # <<>>) =>
          (~ListingFailed /\ PagesFetched * PageSize < Len(store))
    /\ (pc # "Listing" /\ ~ListingFailed) => Len(details) = Len(store)
    /\ pc = "Persisted" =>
          fs[AUDIO_DETAILS_FILENAME] = File(<<Header>> \o ItemsOfPages(PagesFetched))

\* The third call failed: the record holds the items of two pages, fewer
\* than the store holds, in place of what the file held before.
C10_Witness ==
    /\ pc = "Persisted"
    /\ "error: fetching" \in log
    /\ calls = <<0, 2, 3>>
    /\ Len(fs[AUDIO_DETAILS_FILENAME].rows) = 1 + 2 * PageSize
    /\ Len(store) > 2 * PageSize
    /\ fs0[AUDIO_DETAILS_FILENAME].exists

====
